---- MODULE Spec2Model ----
(***************************************************************************)
(* Model of the ROC GitHub Action (hanshal101/actions-ci).                  *)
(*                                                                         *)
(* The repository holds three variants of run():                           *)
(*   "launchOnly"    src/index.js lines 7-121    (start the container)      *)
(*   "fullLifecycle" src/index.js lines 131-268  (start, monitor, collect,  *)
(*                                                cleanup)                 *)
(*   "trafficSim"    src/unnamed/part_000        (start, simulate traffic,  *)
(*                                                print logs and files)    *)
(*                                                                         *)
(* Every awaited call of run() is one action.  The environment (the docker *)
(* binary, the file system) chooses the outcome of each call.  Everything  *)
(* the action does that is visible outside the process (docker commands,   *)
(* core.setFailed, core.setOutput, core.warning, sleeps) is appended to    *)
(* the variable log, in program order.                                     *)
(***************************************************************************)
EXTENDS Integers, Sequences, FiniteSets, TLC

VARIABLES
    variant,      \* which run() is executing
    inputs,       \* the workflow inputs and GITHUB_WORKSPACE, as the runner gives them
    files,        \* host files that exist (paths as segment sequences)
    pc,           \* position of run()
    failed,       \* core.setFailed has been called
    failMsg,      \* the message of the last core.setFailed
    outputs,      \* core.setOutput values, by name
    log,          \* externally visible events, in order
    i,            \* loop counter of monitorContainer
    status,       \* the status monitorContainer read in its last iteration
    sslLibExists, \* result of checkSslLibraries
    containerId,  \* stdout of docker ps -q
    launchOutcome \* how the docker run process ended ("none" before it was run)

vars == <<variant, inputs, files, pc, failed, failMsg, outputs, log, i,
          status, sslLibExists, containerId, launchOutcome>>

(***************************************************************************)
(* Bounds of the model.                                                    *)
(***************************************************************************)
\* longest raw extra_docker_args / additional-args input, in atoms
MaxExtraAtoms == 3
\* most files the output directory holds
MaxOutputFiles == 2

\* for (let i = 0; i < 30; i++)
MaxPolls == 30

Variants == {"launchOnly", "fullLifecycle", "trafficSim"}

(***************************************************************************)
(* Strings and paths.  A path is the sequence of its "/"-separated         *)
(* segments; an absolute path starts with the empty segment.               *)
(***************************************************************************)
RECURSIVE JoinStr(_, _)
\* Array.prototype.join / the text of a path
JoinStr(seq, sep) ==
    IF seq = <<>> THEN ""
    ELSE IF Len(seq) = 1 THEN seq[1]
    ELSE seq[1] \o sep \o JoinStr(Tail(seq), sep)

Str(path) == JoinStr(path, "/")

Undefined == <<"undefined">>

RECURSIVE NormalizeFrom(_, _)
\* path.normalize on segments: acc is the normalized prefix so far
NormalizeFrom(acc, rest) ==
    IF rest = <<>> THEN acc
    ELSE LET s == Head(rest) IN
         IF s = "." \/ (s = "" /\ acc # <<>>)
            THEN NormalizeFrom(acc, Tail(rest))
         ELSE IF s = ".."
            THEN IF acc = <<"">> THEN NormalizeFrom(acc, Tail(rest))
                 ELSE IF acc = <<>> \/ acc[Len(acc)] = ".."
                    THEN NormalizeFrom(Append(acc, ".."), Tail(rest))
                 ELSE NormalizeFrom(SubSeq(acc, 1, Len(acc) - 1), Tail(rest))
         ELSE NormalizeFrom(Append(acc, s), Tail(rest))

\* path.join(a, b, ...) of the concatenated segments: "." when nothing is left
PathJoin(segs) ==
    LET n == NormalizeFrom(<<>>, segs) IN IF n = <<>> THEN <<".">> ELSE n

\* the directory a "host:container" bind mount makes visible: the OS resolves
\* "." and ".." of the host side
Resolve(segs) == PathJoin(segs)

IsInside(dir, path) ==
    /\ Len(path) > Len(dir)
    /\ SubSeq(path, 1, Len(dir)) = dir

\* String.prototype.replace("./", ""): drops the first "./" of the text
ReplaceDotSlash(path) ==
    IF Len(path) < 2 THEN path
    ELSE IF path[1] = "." THEN Tail(path)
    ELSE IF path[1] = ".." THEN <<"." \o path[2]>> \o SubSeq(path, 3, Len(path))
    ELSE path

(***************************************************************************)
(* Raw argument text: a sequence of atoms, each a blank " " or a word.     *)
(***************************************************************************)
RECURSIVE TrimLeft(_)
TrimLeft(atoms) ==
    IF atoms # <<>> /\ Head(atoms) = " " THEN TrimLeft(Tail(atoms)) ELSE atoms

RECURSIVE TrimRight(_)
TrimRight(atoms) ==
    IF atoms # <<>> /\ atoms[Len(atoms)] = " "
       THEN TrimRight(SubSeq(atoms, 1, Len(atoms) - 1))
       ELSE atoms

\* String.prototype.trim
Trim(atoms) == TrimRight(TrimLeft(atoms))

RECURSIVE SplitFrom(_, _, _)
SplitFrom(out, cur, rest) ==
    IF rest = <<>> THEN Append(out, cur)
    ELSE IF Head(rest) = " " THEN SplitFrom(Append(out, cur), "", Tail(rest))
    ELSE SplitFrom(out, cur \o Head(rest), Tail(rest))

\* String.prototype.split(" "): the pieces between blanks, empty ones included
SplitBlank(atoms) == SplitFrom(<<>>, "", atoms)

\* Array.prototype.filter((arg) => arg !== "")
FilterEmpty(seq) == SelectSeq(seq, LAMBDA a : a # "")

(***************************************************************************)
(* Inputs.  A text input that was not given is ""; a path input that was   *)
(* not given is <<>>.  core.getInput trims what it returns.                *)
(***************************************************************************)
\* mutant: api_key read without { required: true }
RequiredInputs_ApiKeyOptional(v) ==
    IF v = "fullLifecycle" THEN {"serverUrl", "patterns"}
    ELSE {"patternsYaml", "dockerImage", "serverUrl"}

\* core.getInput(name, { required: true }) throws when the value is empty
RequiredInputs(v) ==
    IF v = "fullLifecycle" THEN {"serverUrl", "apiKey", "patterns"}
    ELSE {"patternsYaml", "dockerImage", "serverUrl", "apiKey"}

\* the inputs whose value is a path or raw argument text
SeqInputs == {"patterns", "configDir", "outputDir", "extraArgs"}

IsAbsent(inp, name) == IF name \in SeqInputs THEN inp[name] = <<>> ELSE inp[name] = ""

MissingInputs(v, inp) == {n \in RequiredInputs(v) : IsAbsent(inp, n)}

\* value || fallback
OrElse(value, fallback) == IF value = "" THEN fallback ELSE value

OrElsePath(value, fallback) == IF value = <<>> THEN fallback ELSE value

ContainerName(v, inp) ==
    IF v = "fullLifecycle" THEN "roc-test"
    ELSE OrElse(inp.containerName, "roc-action-container")

DockerImage(v, inp) ==
    IF v = "fullLifecycle" THEN OrElse(inp.dockerImage, "hanshal785/roc:v5")
    ELSE inp.dockerImage

ConfigDir(inp) == OrElsePath(inp.configDir, <<"roc-config">>)

OutputDir(v, inp) ==
    IF v = "fullLifecycle" THEN OrElsePath(inp.outputDir, <<"roc-output">>)
    ELSE OrElsePath(inp.outputDir, <<".", "roc-action-output">>)

\* process.env.GITHUB_WORKSPACE || "."
WorkspaceOrDot(inp) == IF inp.workspace = Undefined THEN <<".">> ELSE inp.workspace

\* path.join(workspace, "roc-config-action")
HostConfigDir(inp) == PathJoin(inp.workspace \o <<"roc-config-action">>)

\* path.join(workspace, outputDirHostPath.replace("./", ""))
HostOutputDir(v, inp) == PathJoin(inp.workspace \o ReplaceDotSlash(OutputDir(v, inp)))

\* path.join(hostConfigDir, "pattern.yaml")
HostPatternFilePath(inp) == PathJoin(HostConfigDir(inp) \o <<"pattern.yaml">>)

\* path.join(process.env.GITHUB_WORKSPACE || ".", configDir, patterns)
PatternFilePath(inp) == PathJoin(WorkspaceOrDot(inp) \o ConfigDir(inp) \o inp.patterns)

\* the host side of the mount on /tmp/roc-config, as the command spells it
ConfigMountHost(v, inp) ==
    IF v = "fullLifecycle" THEN WorkspaceOrDot(inp) \o ConfigDir(inp)
    ELSE HostConfigDir(inp)

\* the host side of the mount on /tmp/roc-output, as the command spells it
OutputMountHost(v, inp) ==
    IF v = "fullLifecycle" THEN WorkspaceOrDot(inp) \o OutputDir(v, inp)
    ELSE HostOutputDir(v, inp)

\* the path after --patterns
PatternsArg(v, inp) ==
    IF v = "fullLifecycle" THEN "/tmp/roc-config/" \o Str(inp.patterns)
    ELSE "/tmp/roc-config/pattern.yaml"

\* mutant: the program is told to watch the host-side output directory
WatchArg_HostDir(v, inp) == Str(OutputMountHost(v, inp))

\* the path after --watch
WatchArg(v, inp) == "/tmp/roc-output"

OutputMount(v, inp) == Str(OutputMountHost(v, inp)) \o ":/tmp/roc-output"

ConfigMount(v, inp) == Str(ConfigMountHost(v, inp)) \o ":/tmp/roc-config:ro"

\* the mounts of libssl and libcrypto
SslArgs(v, inp, sslFound) ==
    IF v = "launchOnly" THEN
        << "-v", OrElse(inp.libsslHostPath, "/lib/x86_64-linux-gnu/libssl.so.3")
                    \o ":" \o "/usr/lib64/libssl.so.3",
           "-v", OrElse(inp.libcryptoHostPath, "/lib/x86_64-linux-gnu/libcrypto.so.3")
                    \o ":" \o "/usr/lib64/libcrypto.so.3" >>
    ELSE IF v = "trafficSim" THEN
        << "-v", "/lib/x86_64-linux-gnu/libssl.so.3:/usr/lib64/libssl.so.3",
           "-v", "/lib/x86_64-linux-gnu/libcrypto.so.3:/usr/lib64/libcrypto.so.3" >>
    ELSE IF sslFound THEN
        LET p == OrElse(inp.sslLibPath, "/lib/x86_64-linux-gnu")
            n == OrElse(inp.sslLibVersion, "3")
        IN << "-v", p \o "/libssl.so." \o n \o ":/usr/lib64/libssl.so." \o n,
              "-v", p \o "/libcrypto.so." \o n \o ":/usr/lib64/libcrypto.so." \o n >>
    ELSE <<>>

\* the trailing flags handed to the program in the container
ProgramArgs(v, inp) ==
    << "--server-url", inp.serverUrl, "--api-key", inp.apiKey,
       "--patterns", PatternsArg(v, inp), "--watch", WatchArg(v, inp) >>

\* the argument vector of the launch, "docker" included
DockerRunCmd(v, inp, sslFound) ==
    LET head == << "docker", "run", "-d", "--name", ContainerName(v, inp),
                   "--privileged", "--pid=host", "--network=host",
                   "-v", "/proc:/proc", "-v", "/sys:/sys" >>
                \o SslArgs(v, inp, sslFound)
                \o << "-v", OutputMount(v, inp), "-v", ConfigMount(v, inp) >>
    IN IF v = "fullLifecycle" THEN
           head \o <<DockerImage(v, inp)>> \o ProgramArgs(v, inp)
                \o (IF Trim(inp.extraArgs) # <<>>
                       THEN SplitBlank(Trim(inp.extraArgs)) ELSE <<>>)
       ELSE
           FilterEmpty(head \o SplitBlank(inp.extraArgs)
                            \o <<DockerImage(v, inp)>> \o ProgramArgs(v, inp))

(***************************************************************************)
(* The environment.                                                        *)
(***************************************************************************)
\* how a child process ends: exit 0, exit nonzero, or it could not be run
ExecOutcomes == {"ok", "nonzero", "error"}

\* exec.exec rejects on a nonzero exit unless ignoreReturnCode is set, and
\* always when the process cannot be run
ExecThrows(outcome, ignoreReturnCode) ==
    outcome = "error" \/ (outcome = "nonzero" /\ ~ignoreReturnCode)

\* the exit code exec.exec resolves with
ExitCode(outcome) == IF outcome = "nonzero" THEN 1 ELSE 0

\* how a file system call ends
FsOutcomes == {"ok", "error"}

\* what docker inspect --format {{.State.Status}} prints
Statuses == {"", "created", "running", "exited"}

\* what docker ps -q --filter name=roc-test prints
ContainerIds == {"", "c0ffee"}

\* what docker logs prints
LogTexts == {"", "roc started"}

\* the listings fs.readdir can return
Listings == {[k \in 1..n |-> JoinStr(<<"out", ToString(k)>>, "-")] : n \in 0..MaxOutputFiles}

(***************************************************************************)
(* Events of the log.                                                      *)
(***************************************************************************)
SetFailedEv(msg) == <<"core.setFailed", msg>>
SetOutputEv(name, value) == <<"core.setOutput", name, value>>
WarningEv(msg) == <<"core.warning", msg>>
SleepEv(ms) == <<"sleep", ms>>
ReaddirEv(dir) == <<"fs.readdir", dir>>
ReadFileEv(name) == <<"fs.readFile", name>>
CleanupEv == <<"cleanupContainer">>

InspectCmd(id) == <<"docker", "inspect", "--format", "{{.State.Status}}", id>>
LogsCmd(id) == <<"docker", "logs", id>>
PsCmd == <<"docker", "ps", "-q", "--filter", "name=roc-test">>
\* mutant: docker stop addresses the other variants' default container name
StopCmd_OtherName == <<"docker", "stop", "roc-action-container">>

StopCmd == <<"docker", "stop", "roc-test">>
RmCmd == <<"docker", "rm", "roc-test">>
SimulateCmd(name) == <<"docker", "exec", name, "sh", "-c", "curl -s https://example.com">>
MoreTrafficCmd(name) == <<"docker", "exec", name, "sh", "-c", "curl -X POST https://example.com?more">>

\* mutant: the cleanup at the end of the try block instead of in a finally
AfterCatch_NoFinally(v) == "done"

\* where run() goes after its catch block: the full lifecycle has a finally
AfterCatch(v) == IF v = "fullLifecycle" THEN "cleanup" ELSE "done"

\* mutant: the catch block warns instead of failing the run
Catch_WarnOnly(l, msg) ==
    /\ log' = Append(l, <<"core.warning", msg>>)
    /\ pc' = AfterCatch(variant)
    /\ UNCHANGED <<failed, failMsg>>

\* catch (error) { core.setFailed(error.message) }, after the events l
Catch(l, msg) ==
    /\ failed' = TRUE
    /\ failMsg' = msg
    /\ log' = Append(l, SetFailedEv(msg))
    /\ pc' = AfterCatch(variant)

\* the step went through: the events l, then on to the next position
Continue(l, next) ==
    /\ log' = l
    /\ pc' = next
    /\ UNCHANGED <<failed, failMsg>>

(***************************************************************************)
(* run(): reading the inputs and staging the host.                         *)
(***************************************************************************)
\* core.getInput for every input; a missing required one throws
ReadInputs ==
    /\ pc = "start"
    /\ IF MissingInputs(variant, inputs) # {}
          THEN Catch(log, "Input required and not supplied")
          ELSE Continue(log, IF variant = "fullLifecycle" THEN "validate" ELSE "ensureHostDirs")
    /\ UNCHANGED <<variant, inputs, files, outputs, i, status, sslLibExists, containerId, launchOutcome>>

\* launchOnly, trafficSim: path.join(workspace, ...) and the two fs.ensureDir
EnsureHostDirs ==
    /\ pc = "ensureHostDirs"
    /\ \E o \in FsOutcomes :
         IF inputs.workspace = Undefined
            THEN Catch(log, "The path argument must be of type string")
         ELSE IF o = "error" THEN Catch(log, "ensureDir failed")
         ELSE Continue(log, "writePatternFile")
    /\ UNCHANGED <<variant, inputs, files, outputs, i, status, sslLibExists, containerId, launchOutcome>>

\* launchOnly, trafficSim: fs.writeFile(hostPatternFilePath, patternsYamlContent)
WritePatternFile ==
    /\ pc = "writePatternFile"
    /\ \E o \in FsOutcomes :
         IF o = "error"
            THEN Catch(log, "writeFile failed") /\ UNCHANGED files
            ELSE /\ Continue(log, "dockerRun")
                 /\ files' = files \cup {HostPatternFilePath(inputs)}
    /\ UNCHANGED <<variant, inputs, outputs, i, status, sslLibExists, containerId, launchOutcome>>

\* fs.existsSync(patternFilePath)
PatternFileExists(inp, fs) == PatternFilePath(inp) \in fs

\* fullLifecycle: the existence check and the readFileSync of the preview
ValidatePattern ==
    /\ pc = "validate"
    /\ \E o \in FsOutcomes :
         IF ~PatternFileExists(inputs, files)
            THEN Catch(log, "Pattern file does not exist")
         ELSE IF o = "error" THEN Catch(log, "readFileSync failed")
         ELSE Continue(log, "checkSsl")
    /\ UNCHANGED <<variant, inputs, files, outputs, i, status, sslLibExists, containerId, launchOutcome>>

\* fullLifecycle: checkSslLibraries never throws; run() warns when it says false
CheckSslLibraries ==
    /\ pc = "checkSsl"
    /\ \E found \in BOOLEAN :
         /\ sslLibExists' = found
         /\ Continue(IF found THEN log
                     ELSE log \o <<WarningEv("SSL libraries not found"),
                                   WarningEv("SSL libraries not found. ROC may fail to start.")>>,
                     "ensureDirs")
    /\ UNCHANGED <<variant, inputs, files, outputs, i, status, containerId, launchOutcome>>

\* fullLifecycle: fs.ensureDir(outputDir), fs.ensureDir(configDir)
EnsureDirs ==
    /\ pc = "ensureDirs"
    /\ \E o \in FsOutcomes :
         IF o = "error" THEN Catch(log, "ensureDir failed")
         ELSE Continue(log, "dockerRun")
    /\ UNCHANGED <<variant, inputs, files, outputs, i, status, sslLibExists, containerId, launchOutcome>>

(***************************************************************************)
(* run(): the launch.                                                      *)
(***************************************************************************)
\* what run() does with the exit code exec.exec resolved with
AfterLaunch(v, code, l) ==
    IF code # 0 THEN
        IF v = "fullLifecycle" THEN Catch(l, "Failed to start ROC container")
        ELSE /\ failed' = TRUE
             /\ failMsg' = "Docker run failed with exit code"
             /\ log' = Append(l, SetFailedEv("Docker run failed with exit code"))
             /\ pc' = "done"
    ELSE Continue(l, IF v = "fullLifecycle" THEN "dockerPs" ELSE "awaitStartup")

\* exec.exec("docker", dockerArgs)
DockerRun ==
    /\ pc = "dockerRun"
    /\ \E o \in ExecOutcomes :
         LET l == Append(log, DockerRunCmd(variant, inputs, sslLibExists)) IN
         /\ launchOutcome' = o
         /\ IF ExecThrows(o, FALSE) THEN Catch(l, "docker run: the process failed")
            ELSE AfterLaunch(variant, ExitCode(o), l)
    /\ UNCHANGED <<variant, inputs, files, outputs, i, status, sslLibExists, containerId>>

(***************************************************************************)
(* launchOnly and trafficSim after the launch.                             *)
(***************************************************************************)
\* the 20 s sleep; launchOnly then sets its output and ends
AwaitStartup ==
    /\ pc = "awaitStartup"
    /\ IF variant = "launchOnly"
          THEN /\ Continue(log \o <<SleepEv("20000"),
                                    SetOutputEv("container_name", ContainerName(variant, inputs))>>,
                           "done")
               /\ outputs' = ("container_name" :> ContainerName(variant, inputs)) @@ outputs
          ELSE /\ Continue(Append(log, SleepEv("20000")), "simulateTraffic")
               /\ UNCHANGED outputs
    /\ UNCHANGED <<variant, inputs, files, i, status, sslLibExists, containerId, launchOutcome>>

\* trafficSim: one awaited docker command that is not guarded, then on to next
Unguarded(cmd, after, next) ==
    \E o \in ExecOutcomes :
        IF ExecThrows(o, FALSE) THEN Catch(Append(log, cmd), "the process failed")
        ELSE Continue(Append(log, cmd) \o after, next)

SimulateTraffic ==
    /\ pc = "simulateTraffic"
    /\ Unguarded(SimulateCmd(ContainerName(variant, inputs)), <<SleepEv("20000")>>, "fetchLogs")
    /\ UNCHANGED <<variant, inputs, files, outputs, i, status, sslLibExists, containerId, launchOutcome>>

FetchLogs ==
    /\ pc = "fetchLogs"
    /\ Unguarded(LogsCmd(ContainerName(variant, inputs)), <<>>, "moreTraffic")
    /\ UNCHANGED <<variant, inputs, files, outputs, i, status, sslLibExists, containerId, launchOutcome>>

MoreTraffic ==
    /\ pc = "moreTraffic"
    /\ Unguarded(MoreTrafficCmd(ContainerName(variant, inputs)), <<SleepEv("20000")>>, "fetchLogsAgain")
    /\ UNCHANGED <<variant, inputs, files, outputs, i, status, sslLibExists, containerId, launchOutcome>>

FetchLogsAgain ==
    /\ pc = "fetchLogsAgain"
    /\ Unguarded(LogsCmd(ContainerName(variant, inputs)), <<>>, "printOutputFiles")
    /\ UNCHANGED <<variant, inputs, files, outputs, i, status, sslLibExists, containerId, launchOutcome>>

\* trafficSim: fs.readdir(hostOutputDir), fs.readFile of every entry, setOutput
PrintOutputFiles ==
    /\ pc = "printOutputFiles"
    /\ LET l == Append(log, ReaddirEv(Str(HostOutputDir(variant, inputs)))) IN
       \E dir \in FsOutcomes, listing \in Listings, read \in FsOutcomes :
         IF dir = "error"
            THEN Catch(l, "readdir failed") /\ UNCHANGED outputs
         ELSE IF listing # <<>> /\ read = "error"
            THEN Catch(Append(l, ReadFileEv(listing[1])), "readFile failed") /\ UNCHANGED outputs
         ELSE /\ Continue(Append(l, SetOutputEv("container_name", ContainerName(variant, inputs))),
                          "done")
              /\ outputs' = ("container_name" :> ContainerName(variant, inputs)) @@ outputs
    /\ UNCHANGED <<variant, inputs, files, i, status, sslLibExists, containerId, launchOutcome>>

(***************************************************************************)
(* fullLifecycle after the launch.                                         *)
(***************************************************************************)
\* docker ps -q --filter name=roc-test, not guarded; then setOutput("container-id")
DockerPs ==
    /\ pc = "dockerPs"
    /\ \E o \in ExecOutcomes, id \in ContainerIds :
         IF ExecThrows(o, FALSE)
            THEN /\ Catch(Append(log, PsCmd), "docker ps: the process failed")
                 /\ UNCHANGED <<outputs, containerId, i>>
            ELSE /\ Continue(log \o <<PsCmd, SetOutputEv("container-id", id)>>,
                             IF 0 < MaxPolls THEN "monitor" ELSE "monitorLogs")
                 /\ containerId' = id
                 /\ outputs' = ("container-id" :> id) @@ outputs
                 /\ i' = 0
    /\ UNCHANGED <<variant, inputs, files, status, sslLibExists, launchOutcome>>

\* mutant: the loop also leaves on "created"
TerminalStatuses_WithCreated == {"running", "exited", "created"}

\* mutant: the loop leaves on "running" only
TerminalStatuses_RunningOnly == {"running"}

\* monitorContainer: the loop leaves on these
TerminalStatuses == {"running", "exited"}

\* monitorContainer: one iteration of the for loop (the inspect, then the
\* break or the 10 s sleep and i++)
MonitorPoll ==
    /\ pc = "monitor"
    /\ \E o \in ExecOutcomes, st \in Statuses :
         LET l == Append(log, InspectCmd(containerId)) IN
         IF ExecThrows(o, FALSE)
            THEN /\ Continue(Append(l, WarningEv("Could not inspect container")), "monitorLogs")
                 /\ status' = ""
                 /\ i' = i
         ELSE IF st \in TerminalStatuses
            THEN /\ Continue(IF st = "exited"
                                THEN Append(l, WarningEv("ROC container has exited"))
                                ELSE l,
                             "monitorLogs")
                 /\ status' = st
                 /\ i' = i
         ELSE /\ Continue(Append(l, SleepEv("10000")),
                          IF i + 1 < MaxPolls THEN "monitor" ELSE "monitorLogs")
              /\ status' = st
              /\ i' = i + 1
    /\ UNCHANGED <<variant, inputs, files, outputs, sslLibExists, containerId, launchOutcome>>

\* monitorContainer: the docker logs after the loop, not guarded
MonitorShowLogs ==
    /\ pc = "monitorLogs"
    /\ \E o \in ExecOutcomes :
         IF ExecThrows(o, FALSE)
            THEN Catch(Append(log, LogsCmd(containerId)), "docker logs: the process failed")
            ELSE Continue(Append(log, LogsCmd(containerId)), "getOutputFiles")
    /\ UNCHANGED <<variant, inputs, files, outputs, i, status, sslLibExists, containerId, launchOutcome>>

\* getOutputFiles: the newline-joined listing, or "" and a warning
OutputFilesResult(dir, listing) == IF dir = "error" THEN "" ELSE JoinStr(listing, "\n")

\* getOutputFiles(outputDir), then setOutput("output-files")
GetOutputFiles ==
    /\ pc = "getOutputFiles"
    /\ \E dir \in FsOutcomes, listing \in Listings :
         LET l == Append(log, ReaddirEv(Str(OutputDir(variant, inputs))))
             r == OutputFilesResult(dir, listing)
         IN /\ Continue((IF dir = "error"
                            THEN Append(l, WarningEv("Could not read output directory"))
                            ELSE l) \o <<SetOutputEv("output-files", r)>>,
                        "getContainerLogs")
            /\ outputs' = ("output-files" :> r) @@ outputs
    /\ UNCHANGED <<variant, inputs, files, i, status, sslLibExists, containerId, launchOutcome>>

\* getContainerLogs(containerId), then setOutput("logs")
GetContainerLogs ==
    /\ pc = "getContainerLogs"
    /\ \E o \in ExecOutcomes, text \in LogTexts :
         LET l == Append(log, LogsCmd(containerId))
             r == IF ExecThrows(o, FALSE) THEN "" ELSE text
         IN /\ Continue((IF ExecThrows(o, FALSE)
                            THEN Append(l, WarningEv("Could not get container logs"))
                            ELSE l) \o <<SetOutputEv("logs", r)>>,
                        "cleanup")
            /\ outputs' = ("logs" :> r) @@ outputs
    /\ UNCHANGED <<variant, inputs, files, i, status, sslLibExists, containerId, launchOutcome>>

\* mutant: the catch block of cleanupContainer fails the run
CleanupCatch_SetFailed(l) ==
    /\ failed' = TRUE
    /\ failMsg' = "Cleanup error"
    /\ log' = Append(l, SetFailedEv("Cleanup error"))
    /\ pc' = "done"

\* cleanupContainer: what its catch block does with an error
CleanupCatch(l) == Continue(Append(l, WarningEv("Cleanup error")), "done")

\* finally { await cleanupContainer() }: docker stop, return code ignored
CleanupStop ==
    /\ pc = "cleanup"
    /\ \E o \in ExecOutcomes :
         LET l == log \o <<CleanupEv, StopCmd>> IN
         IF ExecThrows(o, TRUE) THEN CleanupCatch(l)
         ELSE Continue(l, "cleanupRm")
    /\ UNCHANGED <<variant, inputs, files, outputs, i, status, sslLibExists, containerId, launchOutcome>>

\* cleanupContainer: docker rm, return code ignored
CleanupRm ==
    /\ pc = "cleanupRm"
    /\ \E o \in ExecOutcomes :
         LET l == Append(log, RmCmd) IN
         IF ExecThrows(o, TRUE) THEN CleanupCatch(l)
         ELSE Continue(l, "done")
    /\ UNCHANGED <<variant, inputs, files, outputs, i, status, sslLibExists, containerId, launchOutcome>>

(***************************************************************************)
(* Initial states.                                                         *)
(***************************************************************************)
Workspaces == {Undefined, <<"", "ws">>}

Inp(su, ak, pat, py, img, cn, od, cd, ex, lib, ver, ws) ==
    [ serverUrl |-> su, apiKey |-> ak, patterns |-> pat, patternsYaml |-> py,
      dockerImage |-> img, containerName |-> cn, outputDir |-> od, configDir |-> cd,
      extraArgs |-> ex,
      libsslHostPath |-> IF lib = "" THEN "" ELSE lib \o "/libssl.so.3",
      libcryptoHostPath |-> IF lib = "" THEN "" ELSE lib \o "/libcrypto.so.3",
      sslLibPath |-> lib, sslLibVersion |-> ver, workspace |-> ws ]

\* the pattern files the host may hold before the run
CandidateFiles(inp) ==
    { PathJoin(WorkspaceOrDot(inp) \o ConfigDir(inp) \o <<"p.yaml">>),
      PathJoin(WorkspaceOrDot(inp) \o <<"p.yaml">>) }

InitRest ==
    /\ pc = "start"
    /\ failed = FALSE
    /\ failMsg = ""
    /\ outputs = <<>>
    /\ log = <<>>
    /\ i = 0
    /\ status = ""
    /\ sslLibExists = FALSE
    /\ containerId = ""
    /\ launchOutcome = "none"

\* launchOnly and trafficSim: the pattern text is an input
InitLaunch ==
    /\ variant \in {"launchOnly", "trafficSim"}
    /\ inputs \in { Inp(su, ak, <<>>, py, img, cn, <<>>, <<>>, <<>>, "", "", ws) :
                      su \in {"", "https://x"}, ak \in {"", "k"}, py \in {"", "a: 1"},
                      img \in {"", "roc:v5"}, cn \in {"", "my-roc"}, ws \in Workspaces }
    /\ files = {}

\* fullLifecycle: the pattern file is named by an input and must be on the host
InitFull ==
    /\ variant = "fullLifecycle"
    /\ inputs \in { Inp(su, ak, pat, "", "", "", <<>>, cd, <<>>, "", "", ws) :
                      su \in {"", "https://x"}, ak \in {"", "k"},
                      pat \in {<<>>, <<"p.yaml">>, <<"..", "p.yaml">>},
                      cd \in {<<>>, <<"cfg">>}, ws \in Workspaces }
    /\ files \in {{}} \cup {{f} : f \in CandidateFiles(inputs)}

Init == (InitLaunch \/ InitFull) /\ InitRest

Next ==
    \/ ReadInputs
    \/ EnsureHostDirs
    \/ WritePatternFile
    \/ ValidatePattern
    \/ CheckSslLibraries
    \/ EnsureDirs
    \/ DockerRun
    \/ AwaitStartup
    \/ SimulateTraffic
    \/ FetchLogs
    \/ MoreTraffic
    \/ FetchLogsAgain
    \/ PrintOutputFiles
    \/ DockerPs
    \/ MonitorPoll
    \/ MonitorShowLogs
    \/ GetOutputFiles
    \/ GetContainerLogs
    \/ CleanupStop
    \/ CleanupRm

Spec == Init /\ [][Next]_vars

(***************************************************************************)
(* The launch alone, over every combination of the host-side inputs.       *)
(***************************************************************************)
ExtraAtoms == {" ", "--watch", "/x"}

\* the raw text of extra_docker_args / additional-args
RawExtraTexts == UNION {[1..n -> ExtraAtoms] : n \in 0..MaxExtraAtoms}

InitLaunchArgs ==
    \/ /\ variant \in {"launchOnly", "trafficSim"}
       /\ inputs \in { Inp("https://x", "k", <<>>, "a: 1", "roc:v5", cn, od, <<>>, Trim(ex),
                           lib, "", ws) :
                         cn \in {"", "my-roc"},
                         od \in {<<>>, <<"out">>, <<".", "out">>, <<"..", "out">>, <<"", "abs">>},
                         ex \in RawExtraTexts, lib \in {"", "/opt/ssl"}, ws \in Workspaces }
       /\ files = {}
    \/ /\ variant = "fullLifecycle"
       /\ inputs \in { Inp("https://x", "k", pat, "", img, "", od, cd, Trim(ex),
                           lib, IF lib = "" THEN "" ELSE "1.1", ws) :
                         pat \in {<<"p.yaml">>, <<"sub", "q.yaml">>}, img \in {"", "roc:v5"},
                         od \in {<<>>, <<"out">>, <<".", "out">>, <<"..", "out">>, <<"", "abs">>},
                         cd \in {<<>>, <<"cfg">>, <<"", "abs">>},
                         ex \in RawExtraTexts, lib \in {"", "/opt/ssl"}, ws \in Workspaces }
       /\ files = {PatternFilePath(inputs)}

NextLaunch ==
    \/ ReadInputs
    \/ EnsureHostDirs
    \/ WritePatternFile
    \/ ValidatePattern
    \/ CheckSslLibraries
    \/ EnsureDirs
    \/ DockerRun

InitArgs == InitLaunchArgs /\ InitRest

SpecLaunch == InitArgs /\ [][NextLaunch]_vars

(***************************************************************************)
(* The full lifecycle on the inputs {server-url: "https://x", api-key:     *)
(* "k", patterns: "p.yaml"}, defaults otherwise.  Every awaited call       *)
(* settles, so a step that is enabled is eventually taken.                 *)
(***************************************************************************)
InitScenario ==
    /\ variant = "fullLifecycle"
    /\ inputs = Inp("https://x", "k", <<"p.yaml">>, "", "", "", <<>>, <<>>, <<>>, "", "",
                    <<"", "ws">>)
    /\ files = {<<"", "ws", "roc-config", "p.yaml">>}

NextFull ==
    \/ ReadInputs
    \/ ValidatePattern
    \/ CheckSslLibraries
    \/ EnsureDirs
    \/ DockerRun
    \/ DockerPs
    \/ MonitorPoll
    \/ MonitorShowLogs
    \/ GetOutputFiles
    \/ GetContainerLogs
    \/ CleanupStop
    \/ CleanupRm

InitFair == InitScenario /\ InitRest

SpecScenario == InitFair /\ [][NextFull]_vars /\ WF_vars(NextFull)

(***************************************************************************)
(* Reading the log.                                                        *)
(***************************************************************************)
\* the positions of the log that hold the docker subcommand sub
DockerCalls(sub) ==
    {k \in DOMAIN log : log[k][1] = "docker" /\ log[k][2] = sub}

\* the positions of the log that hold an event of this kind
EventsOf(kind) == {k \in DOMAIN log : log[k][1] = kind}

\* some required input of the running variant was not given
RequiredInputAbsent ==
    \/ inputs.serverUrl = ""
    \/ inputs.apiKey = ""
    \/ variant = "fullLifecycle" /\ inputs.patterns = <<>>
    \/ variant # "fullLifecycle" /\ (inputs.patternsYaml = "" \/ inputs.dockerImage = "")

(***************************************************************************)
(* Claims.                                                                 *)
(***************************************************************************)
\* C1: in the full lifecycle, cleanupContainer is invoked at most once at any
\* time and exactly once by the end of the run, and every event after its
\* invocation is one of its own (docker stop, docker rm, its warning), so it
\* comes after all other steps, whichever step ended the flow.
C1_CleanupOnceAndLast ==
    variant = "fullLifecycle" =>
        /\ Cardinality(EventsOf("cleanupContainer")) <= 1
        /\ pc = "done" => Cardinality(EventsOf("cleanupContainer")) = 1
        /\ EventsOf("cleanupContainer") # {} => pc \in {"cleanupRm", "done"}
        /\ \A k \in EventsOf("cleanupContainer") : \A j \in (k + 1)..Len(log) :
               log[j] \in {<<"docker", "stop", "roc-test">>, <<"docker", "rm", "roc-test">>,
                           <<"core.warning", "Cleanup error">>}

\* C1 witness: a run that failed while monitoring (the docker logs of
\* monitorContainer threw after some inspect call) has ended with its cleanup
C1_Witness ==
    /\ variant = "fullLifecycle"
    /\ pc = "done"
    /\ failed
    /\ failMsg = "docker logs: the process failed"
    /\ DockerCalls("inspect") # {}
    /\ Cardinality(EventsOf("cleanupContainer")) = 1

\* C2: when a required input is absent, docker run is never invoked, and the
\* run is marked failed before any docker command at all is invoked.
C2_MissingInputFailsFirst ==
    RequiredInputAbsent =>
        /\ DockerCalls("run") = {}
        /\ pc # "start" => failed
        /\ \A k \in EventsOf("docker") :
               \E j \in 1..(k - 1) : log[j][1] = "core.setFailed"

\* C2 witness: a full-lifecycle run without its API key has ended, after its
\* cleanup issued docker stop
C2_Witness ==
    /\ variant = "fullLifecycle"
    /\ inputs.apiKey = ""
    /\ inputs.serverUrl # ""
    /\ pc = "done"
    /\ failed
    /\ DockerCalls("stop") # {}

\* C3: when the docker run process ends with a nonzero exit status, the run is
\* marked failed, docker run was issued once only, no docker ps, inspect, exec
\* or logs call and no directory listing happens, and no output is set.
C3_LaunchFailureIsFatal ==
    launchOutcome = "nonzero" =>
        /\ failed
        /\ Cardinality(DockerCalls("run")) = 1
        /\ \A sub \in {"ps", "inspect", "exec", "logs"} : DockerCalls(sub) = {}
        /\ EventsOf("fs.readdir") = {}
        /\ EventsOf("core.setOutput") = {}
        /\ DOMAIN outputs = {}

\* C3 witness: a run whose launch exited nonzero has ended
C3_Witness ==
    /\ launchOutcome = "nonzero"
    /\ pc = "done"
    /\ variant = "trafficSim"

\* the positions of the log that hold a 10 s sleep of monitorContainer
PollSleeps == {k \in DOMAIN log : log[k] = <<"sleep", "10000">>}

\* C4 (state part): at most 30 inspect calls and at most 30 ten-second sleeps;
\* once an inspect call has reported "running" or "exited" the loop is left,
\* and nothing after that inspect call is a sleep or another inspect call.
C4_PollsBounded ==
    /\ Cardinality(DockerCalls("inspect")) <= 30
    /\ Cardinality(PollSleeps) <= 30
    /\ Cardinality(PollSleeps) <= Cardinality(DockerCalls("inspect"))
    /\ status \in {"running", "exited"} =>
          /\ pc # "monitor"
          /\ \A j \in PollSleeps : \E k \in DockerCalls("inspect") : j < k

\* C4: monitorContainer always terminates (once entered, its loop is left and
\* its final docker logs call is made), within the bounds of C4_PollsBounded.
C4_MonitorTerminates ==
    /\ []C4_PollsBounded
    /\ (pc = "monitor") ~> (pc \notin {"monitor", "monitorLogs"})

\* C4 witness: the loop was left early, on "exited" at its third inspect call
C4_Witness ==
    /\ status = "exited"
    /\ Cardinality(DockerCalls("inspect")) = 3
    /\ Cardinality(PollSleeps) = 2
    /\ pc = "done"

\* C5: in the full lifecycle, once the launch has succeeded nothing marks the
\* run failed (a failing docker ps, docker inspect, docker logs or directory
\* listing is a warning only), and by the time of the cleanup the output-files
\* and logs outputs have been set.
C5_PostLaunchFailuresNonFatal ==
    (variant = "fullLifecycle" /\ launchOutcome = "ok") =>
        /\ ~failed
        /\ pc \in {"cleanup", "cleanupRm", "done"} =>
              {"output-files", "logs"} \subseteq DOMAIN outputs

\* C6: while cleanupContainer runs, the run's failed flag and failure message
\* stay what they were when it was called, no core.setFailed is issued, and
\* control stays inside cleanupContainer or passes to the end of run().
C6_CleanupKeepsOutcome ==
    [][ (pc \in {"cleanup", "cleanupRm"}) =>
          ( /\ failed' = failed
            /\ failMsg' = failMsg
            /\ Cardinality({k \in DOMAIN log' : log'[k][1] = "core.setFailed"})
                  = Cardinality(EventsOf("core.setFailed"))
            /\ pc' \in {"cleanupRm", "done"} ) ]_vars

\* C6 witness: a run that had failed at the launch has ended after a cleanup
\* whose docker rm threw, still reporting the launch failure
C6_Witness ==
    /\ variant = "fullLifecycle"
    /\ pc = "done"
    /\ failed
    /\ failMsg = "docker run: the process failed"
    /\ DockerCalls("rm") # {}
    /\ log[Len(log)] = <<"core.warning", "Cleanup error">>

\* the container names docker run was invoked for (the word after --name)
LaunchedNames == {log[k][5] : k \in DockerCalls("run")}

C8_ArtifactCollectionFailsSoft ==
    \A k \in EventsOf("fs.readdir") :
        ~(k + 1 \in DOMAIN log /\ log[k + 1][1] = "core.setFailed")

\* the pattern file as the container is told to find it, relative to the
\* directory mounted on /tmp/roc-config
PatternInMount == IF variant = "fullLifecycle" THEN inputs.patterns ELSE <<"pattern.yaml">>

\* the run failed while staging the host or checking the pattern file
StagingFailed ==
    failMsg \in {"Pattern file does not exist", "readFileSync failed", "ensureDir failed",
                 "writeFile failed", "The path argument must be of type string"}

\* C9: docker run is invoked only when the pattern file exists on the host
\* inside the directory mounted on /tmp/roc-config; when staging or the
\* existence check fails, the run is marked failed and docker run is never
\* invoked.
C9_PatternFileInsideMount ==
    /\ DockerCalls("run") # {} =>
          LET dir == Resolve(ConfigMountHost(variant, inputs))
              file == PathJoin(ConfigMountHost(variant, inputs) \o PatternInMount)
          IN file \in files /\ IsInside(dir, file)
    /\ StagingFailed => failed /\ DockerCalls("run") = {}

\* the texts a host-side directory can have: up to four segments
HostSegments ==
    {"", ".", "..", "ws", "out", ".out", "abs", "cfg", "roc-output", "roc-config",
     "roc-action-output", "roc-config-action"}

HostTexts == {Str(p) : p \in UNION {[1..n -> HostSegments] : n \in 1..4}}

\* the bind mounts whose container side is exactly /tmp/roc-output, /tmp/roc-config:ro
OutputMountTexts == {h \o ":/tmp/roc-output" : h \in HostTexts}
ConfigMountTexts == {h \o ":/tmp/roc-config:ro" : h \in HostTexts}

\* the paths under /tmp/roc-config/
PatternTexts ==
    {"/tmp/roc-config/" \o Str(p) :
        p \in UNION {[1..n -> {"p.yaml", "q.yaml", "sub", "pattern.yaml"}] : n \in 1..2}}

\* the image the command must name
ImageRef == IF inputs.dockerImage = "" THEN "hanshal785/roc:v5" ELSE inputs.dockerImage

\* C10: whatever the host-side inputs, the docker run argument list holds,
\* after the image, "--watch" directly followed by "/tmp/roc-output" and
\* "--patterns" directly followed by a path under /tmp/roc-config/, and, before
\* the image, bind mounts onto exactly /tmp/roc-output and /tmp/roc-config:ro.
C10_FixedContainerPaths ==
    \A r \in DockerCalls("run") :
        LET a == log[r] IN
        \E m \in DOMAIN a :
            /\ a[m] = ImageRef
            /\ \E j \in (m + 1)..(Len(a) - 1) :
                   a[j] = "--watch" /\ a[j + 1] = "/tmp/roc-output"
            /\ \E j \in (m + 1)..(Len(a) - 1) :
                   a[j] = "--patterns" /\ a[j + 1] \in PatternTexts
            /\ \E j \in 1..(m - 2) : a[j] = "-v" /\ a[j + 1] \in OutputMountTexts
            /\ \E j \in 1..(m - 2) : a[j] = "-v" /\ a[j + 1] \in ConfigMountTexts

\* C10 witness: the full lifecycle launched with an output directory outside
\* the workspace, a configuration directory of its own, and additional
\* arguments that themselves hold a --watch flag
C10_Witness ==
    /\ variant = "fullLifecycle"
    /\ inputs.outputDir = <<"..", "out">>
    /\ inputs.configDir = <<"cfg">>
    /\ inputs.extraArgs = <<"--watch", " ", "/x">>
    /\ DockerCalls("run") # {}


\* monitorContainer has entered its loop and left it
LoopLeft ==
    /\ variant = "fullLifecycle"
    /\ pc # "monitor"
    /\ DockerCalls("inspect") # {}

\* the inspect call that was made last threw (its warning follows it directly)
LastInspectThrew ==
    \E k \in DockerCalls("inspect") :
        /\ \A j \in DockerCalls("inspect") : j <= k
        /\ k + 1 \in DOMAIN log
        /\ log[k + 1] = <<"core.warning", "Could not inspect container">>

\* C11 as stated: the loop is left with fewer than 30 inspect calls made only
\* when an inspect call has reported "running" or "exited"; otherwise exactly
\* 30 inspect calls were made.
C11_EarlyStopOnlyOnTerminalStatus ==
    LoopLeft =>
        \/ status \in {"running", "exited"}
        \/ Cardinality(DockerCalls("inspect")) = 30

\* C11 amended: the loop is left with fewer than 30 inspect calls made only when
\* the last inspect call reported "running" or "exited" or threw; in every other
\* execution exactly 30 inspect calls and 30 sleeps were made; and once
\* monitorContainer is over, the docker logs call has been made.
C11_EarlyStopOnTerminalStatusOrThrow ==
    LoopLeft =>
        /\ \/ status \in {"running", "exited"}
           \/ LastInspectThrew
           \/ /\ Cardinality(DockerCalls("inspect")) = 30
              /\ Cardinality(PollSleeps) = 30
        /\ pc # "monitorLogs" => DockerCalls("logs") # {}

\* C11 witness: the loop ran out (30 inspect calls, none of them reporting a
\* terminal status or throwing) and the run went on to its end
C11_Witness ==
    /\ LoopLeft
    /\ pc = "done"
    /\ status = "created"
    /\ ~LastInspectThrew
    /\ Cardinality(DockerCalls("inspect")) = 30
    /\ ~failed

====
